---- MODULE Spec2Model ----
(***************************************************************************)
(* Model of the video emotion-analysis pipeline:                           *)
(*   backend/app/services/analyzer.py        detect_faces, analyze_bytes   *)
(*   backend/app/services/video_processor.py merge_audio, process_video    *)
(*   backend/app/services/uploader.py        compress_video, upload_to_gcs *)
(*                                                                         *)
(* Units: frame rates are in thousandths of a frame per second             *)
(* (29970 is 29.97 fps), confidences and probabilities in hundredths       *)
(* (85 is 0.85), summary percentages in hundredths of a percent            *)
(* (3333 is 33.33).  A path is the sequence of name parts before ".mp4":   *)
(* <<"processed", "with_audio">> is processed_<id>_with_audio.mp4.         *)
(***************************************************************************)
EXTENDS Integers, Sequences, FiniteSets, TLC

VARIABLES
    pc,               \* position in process_video
    error,            \* exception that left process_video, "none" otherwise
    src_opens,        \* cap.isOpened() as found by the run
    cap,              \* source handle: "none", "open", "released"
    out,              \* sink handle:   "none", "open", "released"
    fps,              \* frame rate used by the run, in thousandths
    frame_interval,   \* sampling interval in frames
    reads,            \* frames returned by cap.read() so far (position)
    processed_frames, \* frames that passed the validity check
    analyzed_frames,  \* frames that reached the analysis branch
    emotion_counts,   \* label -> number of detections counted
    detected,         \* detections returned to the loop by analyze_bytes
    last_detections,  \* the persisted detection set
    latest_faces,     \* result of the latest analyzed frame that found faces
    written,          \* frame positions handed to out.write, in order
    consumed,         \* frame positions that passed the validity check
    event,            \* what the latest loop iteration did
    files,            \* local files that exist
    removed,          \* local files deleted by the run
    bucket,           \* local files whose upload to remote storage succeeded
    stages,           \* post-processing stages executed, in order
    summary,          \* percentage summary, label -> hundredths of a percent
    clock,            \* logical time: steps taken since the call
    elapsed,          \* clock reading taken after the loop (line 210)
    output_with_audio,\* path returned by merge_audio
    compressed_path,  \* path returned by compress_video
    public_url,       \* "unset", "None" or the signed url
    result,           \* the returned dict, NoResult until returned
    model_lock,       \* analyzer.model_lock: 0 when free, else its holder
    threads           \* per concurrent caller: its position in analyze_bytes

vars == <<pc, error, src_opens, cap, out, fps, frame_interval,
          reads, processed_frames, analyzed_frames, emotion_counts, detected,
          last_detections, latest_faces, written, consumed, event, files,
          removed, bucket, stages,
          summary, clock, elapsed, output_with_audio, compressed_path,
          public_url, result, model_lock, threads>>

(***************************************************************************)
(* Bounds of the model.                                                    *)
(***************************************************************************)
\* frames the container yields before the stream ends
MaxFrames == 5
\* frames of the stream that reach the analysis branch
MaxAnalyzed == 2
\* frames of the stream that decode to None or without a channel axis
MaxInvalid == 1
\* width and height of every decoded frame, in pixels
ImgSize == 100
\* callers of analyze_bytes that run at the same time in one process
NumRuns == 2

(***************************************************************************)
(* Program constants.                                                      *)
(***************************************************************************)
CLASS_NAMES == <<"angry", "disgust", "fear", "happy", "neutral", "sad", "surprise">>
MinConfidence == 85
MinFaceSize == 30
DefaultFps == 25
TargetSeconds == 2

Max(a, b) == IF a >= b THEN a ELSE b

Labels == {CLASS_NAMES[i] : i \in 1..Len(CLASS_NAMES)}

RECURSIVE SumOver(_, _)
SumOver(f, S) ==
    IF S = {} THEN 0
    ELSE LET x == CHOOSE y \in S : TRUE IN f[x] + SumOver(f, S \ {x})

\* Python round(): the integer nearest to num/den, a tie going to the even one.
RoundHalfEven(num, den) ==
    LET q == num \div den
        r == num % den
    IN  IF 2 * r < den THEN q
        ELSE IF 2 * r > den THEN q + 1
        ELSE IF q % 2 = 0 THEN q ELSE q + 1

(***************************************************************************)
(* analyzer.py                                                             *)
(***************************************************************************)
\* One entry of the list returned by detector.detect_faces (MTCNN).
RawDet(isDict, hasBox, hasConf, conf, box) ==
    [isDict |-> isDict, hasBox |-> hasBox, hasConf |-> hasConf,
     confidence |-> conf, box |-> box]

RawGood     == RawDet(TRUE, TRUE, TRUE, 99, <<10, 10, 40, 40>>)
RawLowConf  == RawDet(TRUE, TRUE, TRUE, 84, <<50, 50, 40, 40>>)
RawNarrow   == RawDet(TRUE, TRUE, TRUE, 90, <<20, 20, 29, 40>>)
RawShort    == RawDet(TRUE, TRUE, TRUE, 90, <<20, 20, 40, 0>>)
RawEdge     == RawDet(TRUE, TRUE, TRUE, 85, <<-3, -4, 30, 30>>)
RawNoConf   == RawDet(TRUE, TRUE, FALSE, 0, <<60, 60, 35, 35>>)
RawNotDict  == RawDet(FALSE, FALSE, FALSE, 0, <<0, 0, 0, 0>>)
RawNoBox    == RawDet(TRUE, FALSE, TRUE, 99, <<0, 0, 0, 0>>)
RawOutside  == RawDet(TRUE, TRUE, TRUE, 95, <<ImgSize, 10, 30, 30>>)

\* What one call of the detector can do: raise, or return a list.
DetectorOutcomes ==
    { [raised |-> TRUE,  dets |-> <<>>],
      [raised |-> FALSE, dets |-> <<>>],
      [raised |-> FALSE, dets |-> <<RawGood>>],
      [raised |-> FALSE, dets |-> <<RawLowConf, RawNarrow, RawShort>>],
      [raised |-> FALSE, dets |-> <<RawNotDict, RawEdge, RawNoBox, RawNoConf>>],
      [raised |-> FALSE, dets |-> <<RawOutside, RawLowConf, RawGood>>] }

NoDetector == [raised |-> FALSE, dets |-> <<>>]

\* A variant of FaceBox without the confidence threshold of lines 87-89.
FaceBoxNoConfidenceCheck(det) ==
    IF ~det.isDict THEN <<>>
    ELSE IF ~det.hasBox THEN <<>>
    ELSE LET x == Max(0, det.box[1])
             y == Max(0, det.box[2])
             w == Max(1, det.box[3])
             h == Max(1, det.box[4])
         IN  IF w < MinFaceSize \/ h < MinFaceSize THEN <<>>
             ELSE << <<x, y, w, h>> >>

\* Lines 81-100: the box kept for one detection, <<>> when it is ignored.
FaceBox(det) ==
    IF ~det.isDict THEN <<>>
    ELSE IF ~det.hasBox THEN <<>>
    ELSE IF det.hasConf /\ det.confidence < MinConfidence THEN <<>>
    ELSE LET x == Max(0, det.box[1])
             y == Max(0, det.box[2])
             w == Max(1, det.box[3])
             h == Max(1, det.box[4])
         IN  IF w < MinFaceSize \/ h < MinFaceSize THEN <<>>
             ELSE << <<x, y, w, h>> >>

RECURSIVE FaceBoxes(_)
FaceBoxes(detections) ==
    IF detections = <<>> THEN <<>>
    ELSE FaceBox(Head(detections)) \o FaceBoxes(Tail(detections))

detect_faces(outcome) ==
    IF outcome.raised THEN <<>> ELSE FaceBoxes(outcome.dets)

\* The probability vectors (softmax of model.predict) the classifier can
\* give for a face, in hundredths, in the order of CLASS_NAMES.
Predictions ==
    { <<2, 1, 2, 80, 10, 3, 2>>,
      <<40, 2, 3, 5, 5, 40, 5>>,
      <<5, 5, 5, 5, 60, 10, 10>> }

\* What classifying one face can do: raise (preprocess_face or
\* model.predict), or give a probability vector.
Raises == <<>>
ClassifierOutcomes == {Raises} \cup Predictions
\* The entry of a face the loop never submitted to the classifier.
NotCalled == <<0>>

\* np.argmax: the first index holding the maximum.
ArgMax(probs) ==
    CHOOSE i \in 1..Len(probs) :
        /\ \A j \in 1..Len(probs) : probs[j] <= probs[i]
        /\ \A j \in 1..(i - 1) : probs[j] < probs[i]

\* img_rgb[y:y+h, x:x+w].size == 0
RoiEmpty(bbox) == bbox[1] >= ImgSize \/ bbox[2] >= ImgSize

\* Lines 159-165: the dict appended for face i (1-based position in bboxes).
Detection(i, bbox, probs) ==
    [id |-> i, bbox |-> bbox, emotion |-> CLASS_NAMES[ArgMax(probs)],
     confidence |-> probs[ArgMax(probs)], all_probs |-> probs]

\* Lines 143-165: the loop over bboxes from face i on; cls[i] is the
\* classifier's outcome for face i.  Gives [raised, results].
RECURSIVE ClassifyFrom(_, _, _, _)
ClassifyFrom(i, bboxes, cls, results) ==
    IF i > Len(bboxes) THEN [raised |-> FALSE, results |-> results]
    ELSE IF RoiEmpty(bboxes[i]) THEN ClassifyFrom(i + 1, bboxes, cls, results)
    ELSE IF cls[i] = Raises THEN [raised |-> TRUE, results |-> <<>>]
    ELSE ClassifyFrom(i + 1, bboxes, cls,
                      Append(results, Detection(i, bboxes[i], cls[i])))

\* Whether the loop of lines 144-165 submits face i to the classifier.
Submitted(i, bboxes, cls) ==
    /\ ~RoiEmpty(bboxes[i])
    /\ \A j \in 1..(i - 1) : cls[j] # Raises

\* The classifier's outcomes over the faces of one frame: one outcome for
\* each face submitted, NotCalled for the others.
ClassifierRuns(bboxes) ==
    { cls \in [1..Len(bboxes) -> ClassifierOutcomes \cup {NotCalled}] :
        \A i \in 1..Len(bboxes) :
            (cls[i] = NotCalled) <=> ~Submitted(i, bboxes, cls) }

\* analyze_bytes: image_ok is whether read_image_to_rgb decodes the bytes.
analyze_bytes(image_ok, outcome, cls) ==
    IF ~image_ok THEN [raised |-> TRUE, results |-> <<>>]
    ELSE LET bboxes == detect_faces(outcome)
         IN  IF bboxes = <<>> THEN [raised |-> FALSE, results |-> <<>>]
             ELSE ClassifyFrom(1, bboxes, cls, <<>>)

(***************************************************************************)
(* analyzer.py: analyze_bytes statement by statement, for callers that     *)
(* run at the same time in one process (video runs, image requests)        *)
(***************************************************************************)
\* the callers that run at the same time
Runs == 1..NumRuns
\* model_lock when no caller holds it
Free == 0

\* The variables of one video run, which analyze_bytes never touches.
run == <<pc, error, src_opens, cap, out, fps, frame_interval,
         reads, processed_frames, analyzed_frames, emotion_counts, detected,
         last_detections, latest_faces, written, consumed, event, files,
         removed, bucket, stages,
         summary, clock, elapsed, output_with_audio, compressed_path,
         public_url, result>>

\* A caller outside analyze_bytes: decoding, annotating, encoding, writing.
Outside(how, results) ==
    [pc |-> how, bboxes |-> <<>>, i |-> 0, results |-> results]

\* Line 136: the call starts and read_image_to_rgb decodes the bytes,
\* or raises ValueError out of analyze_bytes.
CallAnalyze(t) ==
    /\ UNCHANGED run
    /\ threads[t].pc \in {"idle", "returned", "raised"}
    /\ \E image_ok \in BOOLEAN :
         threads' = [threads EXCEPT ![t] =
                        IF image_ok THEN Outside("detect", <<>>)
                        ELSE Outside("raised", <<>>)]
    /\ UNCHANGED model_lock

\* Lines 137-140: detect_faces, and the early return when it finds no face.
DetectFaces(t) ==
    /\ UNCHANGED run
    /\ threads[t].pc = "detect"
    /\ \E outcome \in DetectorOutcomes :
         LET bboxes == detect_faces(outcome)
         IN  threads' = [threads EXCEPT ![t] =
                            IF bboxes = <<>> THEN Outside("returned", <<>>)
                            ELSE [pc |-> "acquire", bboxes |-> bboxes,
                                  i |-> 1, results |-> <<>>]]
    /\ UNCHANGED model_lock

\* with model_lock entered without waiting for its holder
AcquireLockNoWait(t) ==
    /\ UNCHANGED run
    /\ threads[t].pc = "acquire"
    /\ model_lock' = t
    /\ threads' = [threads EXCEPT ![t].pc = "loop"]

\* Line 143: with model_lock, which blocks while another caller holds it.
AcquireLock(t) ==
    /\ UNCHANGED run
    /\ threads[t].pc = "acquire"
    /\ model_lock = Free
    /\ model_lock' = t
    /\ threads' = [threads EXCEPT ![t].pc = "loop"]

\* Lines 144-147 and 167: the head of the loop over bboxes.  An empty roi
\* is passed over; after the last face the with block ends, which
\* releases the lock, and the results are returned.
NextFace(t) ==
    /\ UNCHANGED run
    /\ threads[t].pc = "loop"
    /\ LET me == threads[t]
       IN  IF me.i > Len(me.bboxes)
           THEN /\ threads' = [threads EXCEPT ![t] = Outside("returned", me.results)]
                /\ model_lock' = Free
           ELSE IF RoiEmpty(me.bboxes[me.i])
           THEN /\ threads' = [threads EXCEPT ![t].i = me.i + 1]
                /\ UNCHANGED model_lock
           ELSE /\ threads' = [threads EXCEPT ![t].pc = "predict"]
                /\ UNCHANGED model_lock

\* A variant of Predict in which a raise leaves analyze_bytes with the lock
\* still held, as with a bare model_lock.acquire() and a release() after
\* the loop.
PredictRaiseKeepsLock(t) ==
    /\ UNCHANGED run
    /\ threads[t].pc = "predict"
    /\ LET me == threads[t]
       IN  \E probs \in ClassifierOutcomes :
             IF probs = Raises
             THEN /\ threads' = [threads EXCEPT ![t] =
                        [Outside("raised", <<>>) EXCEPT !.i = me.i]]
                  /\ UNCHANGED model_lock
             ELSE /\ threads' = [threads EXCEPT ![t] =
                        [me EXCEPT !.pc = "loop", !.i = me.i + 1,
                                   !.results = Append(me.results,
                                       Detection(me.i, me.bboxes[me.i], probs))]]
                  /\ UNCHANGED model_lock

\* Lines 150-165: preprocess_face and model.predict for face i.  A raise
\* leaves the with block, which releases the lock, and then analyze_bytes;
\* the caller keeps in i the face whose classification raised.
Predict(t) ==
    /\ UNCHANGED run
    /\ threads[t].pc = "predict"
    /\ LET me == threads[t]
       IN  \E probs \in ClassifierOutcomes :
             IF probs = Raises
             THEN /\ threads' = [threads EXCEPT ![t] =
                        [Outside("raised", <<>>) EXCEPT !.i = me.i]]
                  /\ model_lock' = Free
             ELSE /\ threads' = [threads EXCEPT ![t] =
                        [me EXCEPT !.pc = "loop", !.i = me.i + 1,
                                   !.results = Append(me.results,
                                       Detection(me.i, me.bboxes[me.i], probs))]]
                  /\ UNCHANGED model_lock

(***************************************************************************)
(* video_processor.py and uploader.py: paths and external tools            *)
(***************************************************************************)
Source == <<"video">>
\* output_path, lines 97-99: processed_<uuid>.mp4 beside the source
OutputPath == <<"processed">>
\* str.replace(".mp4", suffix + ".mp4")
WithSuffix(path, suffix) == Append(path, suffix)

NonePath == <<>>
None == <<"None">>
\* blob.generate_signed_url for the blob processed_videos/<basename>
SignedUrl(local_path) == <<"signed", "processed_videos">> \o local_path

\* What one run of ffmpeg can do: exit 0, exit non-zero, fail to start.
FfmpegOutcomes == {"ok", "nonzero", "exception"}

\* merge_audio(original_path, processed_path) on file system fs:
\* the path returned and the file system left behind.
merge_audio(fs, original_path, processed_path, ffmpeg) ==
    LET final_path == WithSuffix(processed_path, "with_audio")
    IN  IF original_path \notin fs THEN [path |-> processed_path, fs |-> fs]
        ELSE IF processed_path \notin fs THEN [path |-> processed_path, fs |-> fs]
        ELSE IF ffmpeg = "ok" THEN [path |-> final_path, fs |-> fs \cup {final_path}]
        ELSE [path |-> processed_path, fs |-> fs]

\* A variant of compress_video that returns the compressed path whatever
\* ffmpeg's exit code was.
compress_video_unchecked(fs, input_path, output_path, ffmpeg) ==
    LET compressed == WithSuffix(output_path, "compressed")
    IN  IF input_path \notin fs THEN [path |-> output_path, fs |-> fs]
        ELSE IF ffmpeg = "ok" THEN [path |-> compressed, fs |-> fs \cup {compressed}]
        ELSE [path |-> compressed, fs |-> fs]

\* compress_video(input_path, output_path) on file system fs.
compress_video(fs, input_path, output_path, ffmpeg) ==
    LET compressed == WithSuffix(output_path, "compressed")
    IN  IF input_path \notin fs THEN [path |-> output_path, fs |-> fs]
        ELSE IF ffmpeg = "ok" THEN [path |-> compressed, fs |-> fs \cup {compressed}]
        ELSE [path |-> input_path, fs |-> fs]

\* upload_to_gcs(local_path, ...): the url, or None standing for a raise.
\* gcs_ok is whether credentials, bucket and transfer all work.
upload_to_gcs(fs, local_path, gcs_ok) ==
    IF gcs_ok /\ local_path \in fs THEN SignedUrl(local_path) ELSE None

(***************************************************************************)
(* video_processor.py: process_video                                       *)
(***************************************************************************)
\* Frame rates the container can report (CAP_PROP_FPS), in thousandths.
ReportedRates == {0, 400, 500, 1400, 23976, 29970}

\* Line 89: cap.get(cv2.CAP_PROP_FPS) or 25
EffectiveFps(reported) == IF reported = 0 THEN DefaultFps * 1000 ELSE reported

\* A variant of FrameInterval that rounds to the nearest integer.
FrameIntervalRounded(rate) == RoundHalfEven(rate * TargetSeconds, 1000)

\* Line 103: int(fps * 2); int() truncates.
FrameInterval(rate) == (rate * TargetSeconds) \div 1000

\* A variant of OpenOutcome without the isOpened check of lines 86-87.
OpenOutcomeNoOpenCheck(exists, opens) ==
    IF ~exists THEN "FileNotFoundError" ELSE "ok"

\* Lines 82-87: how opening the source ends.
OpenOutcome(exists, opens) ==
    IF ~exists THEN "FileNotFoundError"
    ELSE IF ~opens THEN "Exception"
    ELSE "ok"

\* A variant of IsIntermediate that tests a 0-based frame counter.
IsIntermediateZeroBased(n, interval) == (n - 1) % interval # 0

\* Line 140: processed_frames % frame_interval != 0
IsIntermediate(n, interval) == n % interval # 0

\* A variant of Drawn that stops after the first detection.
DrawnFirstOnly(dets) ==
    IF dets = <<>> THEN <<>> ELSE <<Head(dets)>>

\* Lines 143-145 and 179-181: bbox = det.get("bbox") or det.get("box"),
\* the detection is drawn only with a 4-element box.
Drawn(dets) == SelectSeq(dets, LAMBDA det : Len(det.bbox) = 4)

\* A variant of CountEmotions that counts one face for each frame.
CountEmotionsOncePerFrame(counts, dets) ==
    IF dets = <<>> THEN counts
    ELSE LET emotion == Head(dets).emotion
         IN  IF emotion \in DOMAIN counts
             THEN [counts EXCEPT ![emotion] = @ + 1]
             ELSE counts

\* Lines 198-199 over the loop of lines 178-199.
RECURSIVE CountEmotions(_, _)
CountEmotions(counts, dets) ==
    IF dets = <<>> THEN counts
    ELSE LET emotion == Head(dets).emotion
             counted == IF emotion \in DOMAIN counts
                        THEN [counts EXCEPT ![emotion] = @ + 1]
                        ELSE counts
         IN  CountEmotions(counted, Tail(dets))

\* A variant of Persist that stores every analyzed frame's result.
PersistAlways(last, detections) == detections

\* Lines 176-177: the persisted set after an analyzed frame.
Persist(last, detections) ==
    IF detections # <<>> THEN detections ELSE last

\* A variant of Summary that divides by the number of classes.
SummaryOverClasses(counts) ==
    LET total == Cardinality(DOMAIN counts)
    IN  [k \in DOMAIN counts |-> RoundHalfEven(counts[k] * 10000, total)]

\* Lines 211-212: round((v / total) * 100, 2), in hundredths of a percent.
Summary(counts) ==
    LET s == SumOver(counts, DOMAIN counts)
        total == IF s = 0 THEN 1 ELSE s
    IN  [k \in DOMAIN counts |-> RoundHalfEven(counts[k] * 10000, total)]

NoResult == [summary |-> <<>>, frames_analyzed |-> -1, duration_sec |-> -1,
             public_url |-> NonePath]

Event(path, frame, image_ok, outcome, cls, results, overlay) ==
    [path |-> path, frame |-> frame, image_ok |-> image_ok,
     outcome |-> outcome, cls |-> cls, results |-> results,
     overlay |-> overlay]

\* An iteration that called neither the detector nor the classifier.
PlainEvent(path, frame, overlay) ==
    Event(path, frame, TRUE, NoDetector, <<>>, <<>>, overlay)

Init ==
    /\ pc = "start"
    /\ error = "none"
    /\ src_opens = FALSE
    /\ cap = "none"
    /\ out = "none"
    /\ fps = 0
    /\ frame_interval = 0
    /\ reads = 0
    /\ processed_frames = 0
    /\ analyzed_frames = 0
    /\ emotion_counts = [e \in Labels |-> 0]
    /\ detected = 0
    /\ last_detections = <<>>
    /\ latest_faces = <<>>
    /\ written = <<>>
    /\ consumed = <<>>
    /\ event = PlainEvent("none", 0, <<>>)
    /\ files \in {{}, {Source}}
    /\ removed = {}
    /\ bucket = {}
    /\ stages = <<>>
    /\ summary = <<>>
    /\ clock = 0
    /\ elapsed = -1
    /\ output_with_audio = NonePath
    /\ compressed_path = NonePath
    /\ public_url = NonePath
    /\ result = NoResult
    /\ model_lock = Free
    /\ threads = [t \in Runs |-> Outside("idle", <<>>)]

Tick == clock' = clock + 1

\* Lines 79-122: open the source and the sink, set up the run.
Open ==
    /\ pc = "start"
    /\ Tick
    /\ UNCHANGED <<model_lock, threads>>
    /\ \E opens \in BOOLEAN, rate \in ReportedRates, sink_ok \in BOOLEAN :
         LET how == OpenOutcome(Source \in files, opens) IN
         IF how # "ok"
         THEN /\ pc' = "failed"
              /\ error' = how
              /\ src_opens' = (Source \in files /\ opens)
              /\ UNCHANGED <<cap, out, fps, frame_interval, files>>
         ELSE /\ pc' = "loop"
              /\ error' = "none"
              /\ src_opens' = (Source \in files /\ opens)
              /\ cap' = "open"
              /\ out' = "open"
              /\ fps' = EffectiveFps(rate)
              /\ frame_interval' = FrameInterval(EffectiveFps(rate))
              /\ files' = IF sink_ok THEN files \cup {OutputPath} ELSE files
    /\ UNCHANGED <<reads, processed_frames, analyzed_frames, emotion_counts, detected,
                   last_detections, latest_faces, written, consumed, event, removed, bucket, stages,
                   summary, elapsed, output_with_audio, compressed_path,
                   public_url, result>>

LoopFrame == <<pc, error, cap, out, src_opens, fps, frame_interval, files,
               removed, bucket, stages, summary, elapsed, output_with_audio,
               compressed_path, public_url, result>>

\* Lines 128-130: cap.read() reports the end of the stream.
ReadEnd ==
    /\ pc = "loop"
    /\ Tick
    /\ UNCHANGED <<model_lock, threads>>
    /\ pc' = "finally"
    /\ event' = PlainEvent("end", reads, <<>>)
    /\ UNCHANGED <<error, cap, out, src_opens, fps, frame_interval, files,
                   removed, bucket, stages, summary, elapsed, output_with_audio,
                   compressed_path, public_url, result, reads,
                   processed_frames, analyzed_frames, emotion_counts, detected,
                   last_detections, latest_faces, written, consumed>>

\* Lines 132-134: the frame is None or has no channel axis.
ReadInvalid ==
    /\ pc = "loop"
    /\ reads < MaxFrames
    /\ reads - processed_frames < MaxInvalid
    /\ Tick
    /\ UNCHANGED <<model_lock, threads>>
    /\ reads' = reads + 1
    /\ event' = PlainEvent("invalid", reads + 1, <<>>)
    /\ UNCHANGED LoopFrame
    /\ UNCHANGED <<processed_frames, analyzed_frames, emotion_counts, detected,
                   last_detections, latest_faces, written, consumed>>

\* Lines 136-137, common to every iteration that keeps the frame.
Consume ==
    /\ pc = "loop"
    /\ reads < MaxFrames
    /\ Tick
    /\ UNCHANGED <<model_lock, threads>>
    /\ reads' = reads + 1
    /\ processed_frames' = processed_frames + 1
    /\ consumed' = Append(consumed, reads + 1)

\* Line 140 with frame_interval = 0: the modulo raises ZeroDivisionError.
FrameZeroDivision ==
    /\ Consume
    /\ frame_interval = 0
    /\ pc' = "finally"
    /\ error' = "ZeroDivisionError"
    /\ event' = PlainEvent("zero_division", reads + 1, <<>>)
    /\ UNCHANGED <<cap, out, src_opens, fps, frame_interval, files,
                   removed, bucket, stages, summary, elapsed, output_with_audio,
                   compressed_path, public_url, result>>
    /\ UNCHANGED <<analyzed_frames, emotion_counts, detected, last_detections, latest_faces, written>>

\* Lines 140-160: an intermediate frame, drawn with the persisted set.
FrameIntermediate ==
    /\ Consume
    /\ frame_interval # 0
    /\ IsIntermediate(processed_frames + 1, frame_interval)
    /\ written' = Append(written, reads + 1)
    /\ event' = PlainEvent("intermediate", reads + 1, Drawn(last_detections))
    /\ UNCHANGED LoopFrame
    /\ UNCHANGED <<analyzed_frames, emotion_counts, detected, last_detections, latest_faces>>

\* A variant of FrameEncodeFailed that counts the frame as analyzed only
\* after its encoding succeeded.
FrameEncodeFailedNotCounted ==
    /\ Consume
    /\ frame_interval # 0
    /\ ~IsIntermediate(processed_frames + 1, frame_interval)
    /\ analyzed_frames < MaxAnalyzed
    /\ event' = PlainEvent("encode_failed", reads + 1, <<>>)
    /\ UNCHANGED LoopFrame
    /\ UNCHANGED <<analyzed_frames, emotion_counts, detected,
                   last_detections, latest_faces, written>>

\* Lines 163-166: cv2.imencode reports failure.
FrameEncodeFailed ==
    /\ Consume
    /\ frame_interval # 0
    /\ ~IsIntermediate(processed_frames + 1, frame_interval)
    /\ analyzed_frames < MaxAnalyzed
    /\ analyzed_frames' = analyzed_frames + 1
    /\ event' = PlainEvent("encode_failed", reads + 1, <<>>)
    /\ UNCHANGED LoopFrame
    /\ UNCHANGED <<emotion_counts, detected, last_detections, latest_faces, written>>

\* A variant of FrameAnalysisRaised whose except clause draws the persisted
\* set before it writes the frame.
FrameAnalysisRaisedRedrawn ==
    /\ Consume
    /\ frame_interval # 0
    /\ ~IsIntermediate(processed_frames + 1, frame_interval)
    /\ analyzed_frames < MaxAnalyzed
    /\ analyzed_frames' = analyzed_frames + 1
    /\ \/ event' = Event("raised", reads + 1, FALSE, NoDetector, <<>>, <<>>,
                       Drawn(last_detections))
       \/ \E outcome \in DetectorOutcomes :
          \E cls \in ClassifierRuns(detect_faces(outcome)) :
            /\ analyze_bytes(TRUE, outcome, cls).raised
            /\ event' = Event("raised", reads + 1, TRUE, outcome, cls, <<>>,
                           Drawn(last_detections))
    /\ written' = Append(written, reads + 1)
    /\ UNCHANGED LoopFrame
    /\ UNCHANGED <<emotion_counts, detected, last_detections, latest_faces>>

\* Lines 163-173: analyze_bytes raises.
FrameAnalysisRaised ==
    /\ Consume
    /\ frame_interval # 0
    /\ ~IsIntermediate(processed_frames + 1, frame_interval)
    /\ analyzed_frames < MaxAnalyzed
    /\ analyzed_frames' = analyzed_frames + 1
    /\ \/ event' = Event("raised", reads + 1, FALSE, NoDetector, <<>>, <<>>, <<>>)
       \/ \E outcome \in DetectorOutcomes :
          \E cls \in ClassifierRuns(detect_faces(outcome)) :
            /\ analyze_bytes(TRUE, outcome, cls).raised
            /\ event' = Event("raised", reads + 1, TRUE, outcome, cls, <<>>, <<>>)
    /\ written' = Append(written, reads + 1)
    /\ UNCHANGED LoopFrame
    /\ UNCHANGED <<emotion_counts, detected, last_detections, latest_faces>>

\* Lines 163-201: analyze_bytes returns.
FrameAnalyzed ==
    /\ Consume
    /\ frame_interval # 0
    /\ ~IsIntermediate(processed_frames + 1, frame_interval)
    /\ analyzed_frames < MaxAnalyzed
    /\ analyzed_frames' = analyzed_frames + 1
    /\ \E outcome \in DetectorOutcomes :
       \E cls \in ClassifierRuns(detect_faces(outcome)) :
         LET r == analyze_bytes(TRUE, outcome, cls)
             detections == r.results
         IN  /\ ~r.raised
             /\ last_detections' = Persist(last_detections, detections)
             /\ latest_faces' = IF Len(detections) > 0 THEN detections
                                ELSE latest_faces
             /\ emotion_counts' = CountEmotions(emotion_counts, Drawn(detections))
             /\ detected' = detected + Len(detections)
             /\ event' = Event("analyzed", reads + 1, TRUE, outcome, cls,
                               detections, Drawn(detections))
    /\ written' = Append(written, reads + 1)
    /\ UNCHANGED LoopFrame

\* A variant of Finally whose releases follow the loop instead of standing
\* in a finally block: an exception out of the loop passes them by.
ReleaseAfterLoop ==
    /\ pc = "finally"
    /\ Tick
    /\ UNCHANGED <<model_lock, threads>>
    /\ cap' = IF error = "none" THEN "released" ELSE cap
    /\ out' = IF error = "none" THEN "released" ELSE out
    /\ pc' = IF error = "none" THEN "stats" ELSE "failed"
    /\ UNCHANGED <<error, src_opens, fps, frame_interval, reads,
                   processed_frames, analyzed_frames, emotion_counts, detected,
                   last_detections, latest_faces, written, consumed, event, files, removed, bucket,
                   stages, summary, elapsed, output_with_audio,
                   compressed_path, public_url, result>>

\* Lines 205-207: the finally block, then the exception goes on if any.
Finally ==
    /\ pc = "finally"
    /\ Tick
    /\ UNCHANGED <<model_lock, threads>>
    /\ cap' = "released"
    /\ out' = "released"
    /\ pc' = IF error = "none" THEN "stats" ELSE "failed"
    /\ UNCHANGED <<error, src_opens, fps, frame_interval, reads,
                   processed_frames, analyzed_frames, emotion_counts, detected,
                   last_detections, latest_faces, written, consumed, event, files, removed, bucket,
                   stages, summary, elapsed, output_with_audio,
                   compressed_path, public_url, result>>

\* Lines 210-212.
Stats ==
    /\ pc = "stats"
    /\ Tick
    /\ UNCHANGED <<model_lock, threads>>
    /\ elapsed' = clock
    /\ summary' = Summary(emotion_counts)
    /\ pc' = "merge"
    /\ UNCHANGED <<error, src_opens, cap, out, fps, frame_interval, reads,
                   processed_frames, analyzed_frames, emotion_counts, detected,
                   last_detections, latest_faces, written, consumed, event, files, removed, bucket,
                   stages, output_with_audio, compressed_path, public_url,
                   result>>

\* Line 215.
MergeAudio ==
    /\ pc = "merge"
    /\ Tick
    /\ UNCHANGED <<model_lock, threads>>
    /\ \E ffmpeg \in FfmpegOutcomes :
         LET m == merge_audio(files, Source, OutputPath, ffmpeg)
         IN  /\ output_with_audio' = m.path
             /\ files' = m.fs
    /\ stages' = Append(stages, "remux")
    /\ pc' = "compress"
    /\ UNCHANGED <<error, src_opens, cap, out, fps, frame_interval, reads,
                   processed_frames, analyzed_frames, emotion_counts, detected,
                   last_detections, latest_faces, written, consumed, event, removed, bucket,
                   summary, elapsed, compressed_path, public_url, result>>

\* Line 217.
CompressVideo ==
    /\ pc = "compress"
    /\ Tick
    /\ UNCHANGED <<model_lock, threads>>
    /\ \E ffmpeg \in FfmpegOutcomes :
         LET c == compress_video(files, output_with_audio, output_with_audio, ffmpeg)
         IN  /\ compressed_path' = c.path
             /\ files' = c.fs
    /\ stages' = Append(stages, "compress")
    /\ pc' = "upload"
    /\ UNCHANGED <<error, src_opens, cap, out, fps, frame_interval, reads,
                   processed_frames, analyzed_frames, emotion_counts, detected,
                   last_detections, latest_faces, written, consumed, event, removed, bucket,
                   summary, elapsed, output_with_audio, public_url, result>>

\* A variant of UploadAndRemove that deletes the local file whether or not
\* the upload succeeded.
UploadThenAlwaysRemove(fs, upload_path, remove_path, gcs_ok, remove_ok) ==
    LET url == upload_to_gcs(fs, upload_path, gcs_ok)
        gone == IF remove_path \in fs THEN {remove_path} ELSE {}
    IN  IF url = None
        THEN [public_url |-> None, uploaded |-> {}, removed |-> gone]
        ELSE [public_url |-> url, uploaded |-> {upload_path}, removed |-> gone]

\* Lines 221-233: what the try block leaves: the url and the files removed.
\* remove_ok is whether os.remove succeeds.
UploadAndRemove(fs, upload_path, remove_path, gcs_ok, remove_ok) ==
    LET url == upload_to_gcs(fs, upload_path, gcs_ok)
    IN  IF url = None
        THEN [public_url |-> None, uploaded |-> {}, removed |-> {}]
        ELSE IF remove_ok /\ remove_path \in fs
             THEN [public_url |-> url, uploaded |-> {upload_path},
                   removed |-> {remove_path}]
             ELSE [public_url |-> None, uploaded |-> {upload_path},
                   removed |-> {}]

\* Lines 220-243: upload, delete the local file, return the result.
Upload ==
    /\ pc = "upload"
    /\ Tick
    /\ UNCHANGED <<model_lock, threads>>
    /\ \E gcs_ok \in BOOLEAN, remove_ok \in BOOLEAN :
         LET u == UploadAndRemove(files, compressed_path, output_with_audio,
                                  gcs_ok, remove_ok)
         IN  /\ public_url' = u.public_url
             /\ removed' = removed \cup u.removed
             /\ bucket' = bucket \cup u.uploaded
             /\ files' = files \ u.removed
             /\ result' = [summary |-> summary,
                           frames_analyzed |-> analyzed_frames,
                           duration_sec |-> elapsed,
                           public_url |-> u.public_url]
    /\ stages' = Append(stages, "upload")
    /\ pc' = "done"
    /\ UNCHANGED <<error, src_opens, cap, out, fps, frame_interval, reads,
                   processed_frames, analyzed_frames, emotion_counts, detected,
                   last_detections, latest_faces, written, consumed, event, summary,
                   elapsed, output_with_audio, compressed_path>>

Next ==
    \/ Open
    \/ ReadEnd
    \/ ReadInvalid
    \/ FrameZeroDivision
    \/ FrameIntermediate
    \/ FrameEncodeFailed
    \/ FrameAnalysisRaised
    \/ FrameAnalyzed
    \/ Finally
    \/ Stats
    \/ MergeAudio
    \/ CompressVideo
    \/ Upload

Spec == Init /\ [][Next]_vars

\* Several callers of analyze_bytes at once, each at its own statement.
AnalyzerNext ==
    \/ \E t \in Runs : CallAnalyze(t)
    \/ \E t \in Runs : DetectFaces(t)
    \/ \E t \in Runs : AcquireLock(t)
    \/ \E t \in Runs : NextFace(t)
    \/ \E t \in Runs : Predict(t)

AnalyzerSpec == Init /\ [][AnalyzerNext]_vars

\* The same callers under the scheduling of threads: a caller inside the
\* with block goes on to its next statement (preprocess_face and
\* model.predict end, by a value or a raise), and a caller blocked on
\* model_lock gets it if it is free again and again.  Whether a caller
\* calls analyze_bytes again, and how long it works outside the lock, is
\* left open.
AnalyzerFairness ==
    \A t \in Runs :
        /\ WF_vars(NextFace(t) \/ Predict(t))
        /\ SF_vars(AcquireLock(t))

\* The callers start with the source video in place; analyze_bytes reads
\* no file.
AnalyzerInit == Init /\ files = {Source}

AnalyzerLiveSpec == AnalyzerInit /\ [][AnalyzerNext]_vars /\ AnalyzerFairness

(***************************************************************************)
(* Properties                                                              *)
(***************************************************************************)
Range(seq) == {seq[i] : i \in 1..Len(seq)}

\* n is an exact multiple of k (no positive n is a multiple of 0)
IsMultiple(n, k) == k # 0 /\ n % k = 0

\* The latest iteration kept its frame (it passed the validity check).
KeptFrame == event.path \in {"zero_division", "intermediate", "encode_failed",
                             "raised", "analyzed"}

\* The latest iteration called analyze_bytes.
CalledAnalyze == event.path \in {"raised", "analyzed"}

\* C1: the persisted detection set changes only at an analyzed frame whose
\* analysis returns a non-empty list, and then becomes exactly that list;
\* an analyzed frame with zero faces, an analysis that raises, a frame whose
\* encoding fails and every intermediate or dropped frame leave it as it was.
C1_PersistedSetChangesOnlyOnNonEmptyResult ==
    [][ reads' = reads + 1 =>
          IF event'.path = "analyzed" /\ event'.results # <<>>
          THEN last_detections' = event'.results
          ELSE last_detections' = last_detections ]_vars

\* C1 witness: an analyzed frame returned zero faces while a set was persisted.
C1_Witness ==
    /\ event.path = "analyzed"
    /\ event.results = <<>>
    /\ last_detections # <<>>

\* C2 as stated: a kept frame is submitted to analyze_bytes if and only if
\* its 1-based counter is an exact multiple of the sampling interval.
C2_AnalyzedIffMultiple ==
    KeptFrame =>
        (CalledAnalyze <=> IsMultiple(processed_frames, frame_interval))

\* C2 amended: a kept frame is submitted to analyze_bytes if and only if its
\* 1-based counter is an exact multiple of the sampling interval and its JPEG
\* encoding succeeded; on every other frame neither the detector nor the
\* classifier is invoked.
C2_AnalyzedIffMultipleAndEncoded ==
    /\ KeptFrame =>
         (CalledAnalyze <=> /\ IsMultiple(processed_frames, frame_interval)
                            /\ event.path # "encode_failed")
    /\ ~CalledAnalyze => event.outcome = NoDetector /\ event.cls = <<>>

\* C2 witness: a frame on a multiple of the interval was submitted, after
\* intermediate frames that were not.
C2_Witness ==
    /\ event.path = "analyzed"
    /\ frame_interval = 2
    /\ processed_frames = 4

\* C3 as stated: for every rate >= 1 the interval is max(1, round(rate x 2)).
C3_IntervalIsRounded ==
    (pc # "start" /\ src_opens /\ fps >= 1000) =>
        frame_interval = Max(1, RoundHalfEven(fps * 2, 1000))

\* C3 amended: for every rate >= 1 the interval is floor(rate x 2), the
\* integer k with k <= rate x 2 < k + 1, which is at least 2.
C3_IntervalIsTruncated ==
    (pc # "start" /\ src_opens /\ fps >= 1000) =>
        /\ frame_interval * 1000 <= fps * 2
        /\ fps * 2 < (frame_interval + 1) * 1000
        /\ frame_interval >= 2

\* C3 witness: 29.97 fps gives interval 59, where rounding would give 60.
C3_Witness ==
    /\ pc = "loop"
    /\ fps = 29970
    /\ frame_interval = 59

\* C4: the sink receives exactly one write per kept frame, in reading order,
\* on every path through the loop body that raises nothing.
C4_OneWritePerKeptFrame ==
    error = "none" => written = consumed

\* C5: a run whose source opened never ends in Failed.
C5_FailedOnlySourceError ==
    pc = "failed" => error \in {"FileNotFoundError", "Exception"} /\ ~src_opens

\* C6: when the upload fails the run still returns, public_url is None, the
\* summary, frames_analyzed and duration_sec are those computed from the loop,
\* and the run has deleted no local file.
C6_UploadFailureKeepsStatistics ==
    (pc = "done" /\ bucket = {}) =>
        /\ public_url = None
        /\ removed = {}
        /\ Source \in files
        /\ result.public_url = None
        /\ result.summary = Summary(emotion_counts)
        /\ result.frames_analyzed = analyzed_frames
        /\ result.duration_sec = elapsed
        /\ elapsed = reads + 3

\* C6 witness: a returned run whose upload failed although the artifact was
\* there, with detections counted.
C6_Witness ==
    /\ pc = "done"
    /\ bucket = {}
    /\ compressed_path \in files
    /\ detected > 0

\* C7: at the end of a run frames_analyzed is floor(N / interval), N the
\* frames kept by the loop, whatever the analyses returned or raised.
C7_FramesAnalyzedIsQuotient ==
    (pc = "done" /\ frame_interval > 0) =>
        result.frames_analyzed = processed_frames \div frame_interval

\* C7 witness: 5 frames at interval 2 give 2, with no detection counted.
C7_Witness ==
    /\ pc = "done"
    /\ frame_interval = 2
    /\ processed_frames = 5
    /\ result.frames_analyzed = 2
    /\ detected = 0
    /\ \A k \in Labels : result.summary[k] = 0

\* C8: the summary has an entry for each of the 7 classes; the entries sum
\* to 100 within the rounding error of 7 entries rounded to two decimals
\* when a detection occurred, and are all 0 when none did.
C8_SummarySumsToHundred ==
    pc = "done" =>
        /\ DOMAIN result.summary = Labels
        /\ Cardinality(Labels) = 7
        /\ detected > 0 =>
             /\ SumOver(result.summary, Labels) >= 10000 - 3
             /\ SumOver(result.summary, Labels) <= 10000 + 3
        /\ detected = 0 => \A k \in Labels : result.summary[k] = 0

\* C8 witness: three detections of three classes give 33.33 each, 99.99.
C8_Witness ==
    /\ pc = "done"
    /\ detected = 3
    /\ SumOver(result.summary, Labels) = 9999

\* The box detect_faces would report for a raw detection.
Clamped(box) == <<Max(0, box[1]), Max(0, box[2]), Max(1, box[3]), Max(1, box[4])>>

\* The raw detections of the model, and those the claim excludes.
AllRaw == UNION {Range(o.dets) : o \in DetectorOutcomes}
Excluded(raw) ==
    /\ raw.isDict
    /\ raw.hasBox
    /\ \/ raw.hasConf /\ raw.confidence < 85
       \/ raw.box[3] < 30
       \/ raw.box[4] < 30

\* Every detection the run holds: returned, persisted or drawn.
HeldDetections ==
    Range(event.results) \cup Range(last_detections) \cup Range(event.overlay)

\* C9: no box the detector reported with confidence below 0.85, or narrower
\* or shorter than 30 pixels, is among the detections returned, persisted or
\* drawn, and no more detections are counted than boxes pass the filter.
C9_NoWeakOrSmallFace ==
    /\ \A d \in HeldDetections :
         /\ d.bbox[3] >= 30
         /\ d.bbox[4] >= 30
         /\ \A raw \in AllRaw : Excluded(raw) => d.bbox # Clamped(raw.box)
    /\ event.path = "analyzed" =>
         /\ \A d \in Range(event.results) :
              \E raw \in Range(event.outcome.dets) :
                  ~Excluded(raw) /\ d.bbox = Clamped(raw.box)
         /\ Len(event.results) <=
              Cardinality({i \in 1..Len(event.outcome.dets) :
                              /\ event.outcome.dets[i].isDict
                              /\ event.outcome.dets[i].hasBox
                              /\ ~Excluded(event.outcome.dets[i])})
    /\ SumOver(emotion_counts, Labels) <= detected

\* C9 witness: the detector reported a low-confidence box beside a good one
\* and the frame's result holds a detection.
C9_Witness ==
    /\ event.path = "analyzed"
    /\ RawLowConf \in Range(event.outcome.dets)
    /\ event.results # <<>>
    /\ last_detections = event.results

\* C10: when the source does not exist or cannot be opened the run fails
\* before any frame is read: nothing is returned, nothing is written and no
\* post-processing stage runs.
C10_SourceErrorAbortsBeforeLoop ==
    (pc # "start" /\ ~(Source \in files /\ src_opens)) =>
        /\ pc = "failed"
        /\ error \in {"FileNotFoundError", "Exception"}
        /\ reads = 0
        /\ written = <<>>
        /\ result = NoResult
        /\ stages = <<>>
        /\ removed = {}
        /\ bucket = {}
        /\ OutputPath \notin files

\* C10 witness: the source exists and the container could not be opened.
C10_Witness ==
    /\ pc = "failed"
    /\ Source \in files
    /\ error = "Exception"

\* The callers whose classifier inference (model.predict) is in flight.
InFlight == {t \in Runs : threads[t].pc = "predict"}

\* C11: with several callers of analyze_bytes running at once, at most one
\* classifier inference is in flight in every interleaving, and it belongs
\* to the holder of model_lock; a caller that is decoding, detecting faces
\* or working on its frame outside analyze_bytes can always take its step,
\* whoever holds the lock.
C11_OneInferenceInFlight ==
    /\ Cardinality(InFlight) <= 1
    /\ \A t \in InFlight : model_lock = t
    /\ \A t \in Runs : threads[t].pc = "detect" => ENABLED DetectFaces(t)
    /\ \A t \in Runs : threads[t].pc \in {"idle", "returned", "raised"}
                            => ENABLED CallAnalyze(t)

\* One caller's inference is in flight while another caller detects faces.
C11_Witness ==
    \E t, u \in Runs :
        /\ t # u
        /\ threads[t].pc = "predict"
        /\ threads[u].pc = "detect"
        /\ model_lock = t

\* C12: on every intermediate frame the overlay drawn is exactly the
\* detection set returned by the latest earlier analyzed frame whose result
\* was non-empty, the frame is written with it, and while no analyzed frame
\* has returned a detection the frame is written with no overlay.
C12_IntermediateFrameShowsLatestFaces ==
    event.path = "intermediate" =>
        /\ event.overlay = latest_faces
        /\ written # <<>>
        /\ written[Len(written)] = event.frame

\* C12 witness: an intermediate frame drawn with two persisted detections
\* after two frames were analyzed.
C12_Witness ==
    /\ event.path = "intermediate"
    /\ Len(event.overlay) = 2
    /\ analyzed_frames = 2

\* The faces of the latest analyzed frame for which the classifier raised,
\* and those for which it gave a prediction.
FailedFaces == {i \in DOMAIN event.cls : event.cls[i] = Raises}
ClassifiedFaces == {i \in DOMAIN event.cls : event.cls[i] \in Predictions}

\* C13: when classification raises for one face of an analyzed frame with
\* several faces, only that face is skipped: the analysis still returns, and
\* every face the classifier gave a prediction for is returned, drawn on the
\* frame and stored as the persisted set.
C13_OnlyFailedFaceSkipped ==
    (CalledAnalyze /\ FailedFaces # {} /\ ClassifiedFaces # {}) =>
        /\ event.path = "analyzed"
        /\ {det.id : det \in Range(event.results)} = ClassifiedFaces
        /\ event.overlay = event.results
        /\ last_detections = event.results

\* The frames read so far that the validity check of lines 132-134 dropped.
DroppedFrames == (1..reads) \ Range(consumed)

\* C14: a frame that decodes to nothing or without a channel axis is dropped
\* without being written, analyzed or counted, the loop goes on, and every
\* valid frame after it is still consumed and written.
C14_DroppedFrameThenAllLaterFramesWritten ==
    /\ processed_frames = Len(consumed)
    /\ DroppedFrames \cap Range(written) = {}
    /\ event.path = "invalid" => pc = "loop" /\ event.frame \in DroppedFrames
    /\ \A f \in Range(consumed) :
          (\E d \in DroppedFrames : d < f) => f \in Range(written)

\* The file a successful remux leaves, and whether it was made (the upload
\* step may have deleted it since).
Remuxed == WithSuffix(OutputPath, "with_audio")
RemuxSucceeded == Remuxed \in files \cup removed
\* The newest file compression could start from, and the file it leaves.
Uncompressed == IF RemuxSucceeded THEN Remuxed ELSE OutputPath
Compressed == WithSuffix(Uncompressed, "compressed")
CompressionSucceeded == Compressed \in files
\* The output of the latest post-processing stage that succeeded.
LatestArtifact == IF CompressionSucceeded THEN Compressed ELSE Uncompressed

\* C15: the post-processing stages run in the order remux, compress, upload,
\* each once; the file handed to upload is the compressed file if compression
\* succeeded, else the remuxed file if remux succeeded, else the silent
\* video; and no outcome of remux or compression aborts the run.
C15_StagesInOrderOnLatestArtifact ==
    /\ pc = "compress" => stages = <<"remux">>
    /\ pc = "upload" => /\ stages = <<"remux", "compress">>
                        /\ compressed_path = LatestArtifact
    /\ pc = "done" => /\ stages = <<"remux", "compress", "upload">>
                      /\ compressed_path = LatestArtifact
                      /\ bucket \subseteq {LatestArtifact}
    /\ stages # <<>> => pc \in {"compress", "upload", "done"} /\ error = "none"

\* C15 witness: remux succeeded, compression failed, and the remuxed file
\* was uploaded.
C15_Witness ==
    /\ pc = "done"
    /\ RemuxSucceeded
    /\ ~CompressionSucceeded
    /\ bucket = {Remuxed}

\* The files the run itself made that are still in local storage.
LocalArtifacts == files \ {Source}

\* C16: after a run whose upload succeeded, the file handed to upload has
\* been deleted, no file the run made remains in local storage, and the
\* source video is still there.
C16_UploadedArtifactDeleted ==
    (pc = "done" /\ bucket # {}) =>
        /\ compressed_path \notin files
        /\ LocalArtifacts = {}
        /\ Source \in files

\* The frame loop was entered and left, by break or by an exception.
LoopExited ==
    \/ pc \in {"stats", "merge", "compress", "upload", "done"}
    \/ pc = "failed" /\ error = "ZeroDivisionError"

\* C17: on every exit from the frame loop, by break or by an exception
\* raised inside it, the source handle and the sink handle are released,
\* and they are released before any post-processing stage has run.
C17_HandlesReleasedOnLoopExit ==
    /\ LoopExited => cap = "released" /\ out = "released"
    /\ pc \in {"merge", "compress", "upload"} => out = "released"
    /\ stages # <<>> => cap = "released" /\ out = "released"

\* C17 witness: the loop was left by an exception and both handles are
\* released.
C17_Witness ==
    /\ pc = "failed"
    /\ error = "ZeroDivisionError"
    /\ cap = "released"
    /\ out = "released"

\* A detection whose label is none of CLASS_NAMES.
UnknownDetection ==
    [id |-> 1, bbox |-> <<10, 10, 40, 40>>, emotion |-> "contempt",
     confidence |-> 90, all_probs |-> <<>>]

\* How many detections of dets carry the label.
Carrying(dets, label) ==
    Cardinality({i \in DOMAIN dets : dets[i].emotion = label})

\* C18: the emotion counters go up once for each face returned by an
\* analyzed frame and on no other frame, so at every moment, the end of the
\* run included, their sum is the number of detections the analyzed frames
\* returned; a detection whose label is none of the seven classes changes
\* no counter and raises nothing.
C18_CountersSumToDetections ==
    /\ SumOver(emotion_counts, DOMAIN emotion_counts) = detected
    /\ event.path = "analyzed" =>
          \A label \in Labels :
              emotion_counts[label] >= Carrying(event.results, label)
    /\ CountEmotions(emotion_counts, <<UnknownDetection>>) = emotion_counts
    /\ CountEmotions(emotion_counts, event.results \o <<UnknownDetection>>)
          = CountEmotions(emotion_counts, event.results)

\* C18 witness: a finished run whose analyzed frames returned four faces,
\* two of them in the latest analyzed frame.
C18_Witness ==
    /\ pc = "done"
    /\ detected = 4
    /\ Len(last_detections) = 2
    /\ SumOver(emotion_counts, DOMAIN emotion_counts) = 4

\* C19: whatever frame rate the container reports, once the source is open
\* the sampling interval is at least 1 (50 when the rate is zero or missing
\* and 25 stands in for it), so the test of line 140 never divides by zero.
C19_IntervalAtLeastOne ==
    /\ cap # "none" => frame_interval >= 1
    /\ cap # "none" /\ fps = DefaultFps * 1000 => frame_interval = 50
    /\ error # "ZeroDivisionError"

\* C20: the result's public_url is None only when the upload itself failed:
\* once upload_to_gcs has stored the file and returned its url, the result
\* carries that url, whether or not deleting the local file then succeeds.
C20_UrlKeptWhenUploadSucceeded ==
    pc = "done" =>
        /\ bucket # {} => result.public_url = SignedUrl(compressed_path)
        /\ result.public_url = None => bucket = {}

\* The latest iteration analyzed its frame and got no face: analyze_bytes
\* returned an empty list or raised.
FoundNothing ==
    \/ event.path = "raised"
    \/ event.path = "analyzed" /\ event.results = <<>>

\* C21: an analyzed frame whose analysis returns zero faces or raises is
\* written with no overlay even while a detection set is persisted; a frame
\* that is not intermediate is drawn with its own result only; and the
\* intermediate frame that follows it is drawn with the persisted set again.
C21_OverlayAbsentOnlyOnThatFrame ==
    [][ /\ FoundNothing' /\ reads' = reads + 1 =>
              /\ event'.overlay = <<>>
              /\ written' = Append(written, event'.frame)
              /\ last_detections' = last_detections
        /\ event'.path # "intermediate" => event'.overlay = event'.results
        /\ FoundNothing /\ event'.path = "intermediate" =>
              event'.overlay = last_detections ]_vars

\* C21 witness: the analysis of a frame raised while a detection set was
\* persisted, and the frame was written without it.
C21_Witness ==
    /\ event.path = "raised"
    /\ last_detections # <<>>
    /\ event.overlay = <<>>
    /\ written[Len(written)] = event.frame

\* The caller is inside the region of analyze_bytes that with model_lock
\* encloses.
InRegion(t) == threads[t].pc \in {"loop", "predict"}

====
